---- MODULE Spec2Model ----
(***************************************************************************)
(* pyLoader, get_aggregate_activity_stats.py: the batch job that reads the *)
(* characters from the database, fetches each character's aggregate        *)
(* activity stats over HTTP in batches of worker threads, flattens the     *)
(* responses into rows and bulk-loads the rows, chunk by chunk, into       *)
(* stats.t_aggregate_activity_stats, followed by table maintenance; and     *)
(* single_thread_example.py, the job that fetches the same stats one       *)
(* character after the other and inserts them row by row.  One job runs on *)
(* the database at a time.                                                 *)
(*                                                                         *)
(* Python lists are 0-based, TLA+ sequences 1-based: the loop variables    *)
(* start and end keep the source's 0-based values, and Slice translates.   *)
(***************************************************************************)
EXTENDS Integers, Sequences, FiniteSets, Bags, TLC

VARIABLES
    pc,             \* position of the main thread in handler; "single_thread_example"
                    \* while the other job runs instead
    run,            \* number of the current invocation of a job
    table,          \* committed rows of stats.t_aggregate_activity_stats
    txn,            \* the connection's open transaction: [truncated, rows]
    commits,        \* statements committed on the connection in this run
    db_characters,  \* result set of SQL.characterSelect
    characters,     \* handler's list of characters (each a one-column row)
    start,          \* process_requests: loop variable start
    end,            \* process_requests: loop variable end
    chunk,          \* process_requests: max_workers of the batch's pool
    to_submit,      \* process_requests: characters[start:end+1] not yet submitted
    future,         \* state of the future created for each character
    stats,          \* process_requests: list of collected results (references)
    inserts,        \* rows returned by build_inserts
    lstart,         \* load_data: loop variable start
    lchunk_size,    \* load_data: local chunk_size
    total_inserts,  \* load_data: total_inserts
    counts,         \* handler: value returned by load_data
    error,          \* the exception that ended the run, and where it surfaced
    gets,           \* log: bag of the URLs requested with GET in this run
    served,         \* log: the response the API gave to each character's GET
    pools,          \* log: [start, end, chunk, submitted] of each pool created
    loads,          \* log: number of rows of each chunk copied and committed
    faults,         \* log: TRUE once a database call has failed in this run
    single,         \* single_thread_example.handler: its position and locals
    last            \* log: the latest earlier run that completed: its number, the
                    \* responses it got and the multiset of rows it left

vars == <<pc, run, table, txn, commits, db_characters, characters, start, end,
          chunk, to_submit, future, stats, inserts, lstart, lchunk_size,
          total_inserts, counts, error, gets, served, pools, loads, faults, single,
          last>>

----------------------------------------------------------------------------
(* Bounds of the model.                                                    *)

\* Largest number of rows SQL.characterSelect returns.
MaxCharacters == 5
\* Number of invocations of the jobs in a behaviour.
MaxRuns == 2
\* process_requests' chunk_size (25 at line 66), scaled down so that every
\* interleaving of a batch's worker threads is explored.
chunk_size_requests == 3
\* load_data's chunk_size (10000 at line 137), scaled down likewise.
chunk_size_load == 2
\* Largest number of activities in a document drawn for build_inserts.
MaxActivities == 2

----------------------------------------------------------------------------
(* Python helpers.                                                         *)

Min(a, b) == IF a < b THEN a ELSE b

\* s[a:b] of a Python list, 0-based, the upper bound clamped to len(s).
Slice(s, a, b) == SubSeq(s, a + 1, Min(b, Len(s)))

Digit(d) ==
    CASE d = 0 -> "0" [] d = 1 -> "1" [] d = 2 -> "2" [] d = 3 -> "3"
      [] d = 4 -> "4" [] d = 5 -> "5" [] d = 6 -> "6" [] d = 7 -> "7"
      [] d = 8 -> "8" [] d = 9 -> "9"

RECURSIVE DecimalOf(_)
DecimalOf(v) == IF v < 10 THEN Digit(v) ELSE DecimalOf(v \div 10) \o Digit(v % 10)

\* str(value) of a non-negative integer: its decimal digits.
str(value) == DecimalOf(value)

\* json.dumps of one stat's data, a dict {"statId": ..., "value": ...}.
json_dumps(data) ==
    "{\"statId\": \"" \o data.statId \o "\", \"value\": " \o str(data.value) \o "}"

\* json.loads(response.text): the parsed document; a body that is not JSON
\* raises.  A response text is [json |-> document] or [garbage |-> text].
IsJson(text) == "json" \in DOMAIN text
json_loads(text) == text.json

\* A sequence as a multiset.
BagOfSeq(q) ==
    [x \in {q[i] : i \in 1..Len(q)} |-> Cardinality({i \in 1..Len(q) : q[i] = x})]

\* d[key] = value on a dict.
SetItem(d, key, value) == (key :> value) @@ d

----------------------------------------------------------------------------
(* The external world: the character table and the stats API.              *)

\* The k-th row of SQL.characterSelect: one JSON column holding the
\* character.  Two characters of one member share group, clan and member.
Character(k) ==
    LET m == (k + 1) \div 2
    IN  << [group_id |-> 1, clan_id |-> 10 + (m % 2), member_id |-> 100 + m,
            character_id |-> 1000 + k, destiny_membership_type |-> 1 + (m % 2),
            destiny_id |-> 500 + m] >>

\* api_config['url'].format(membership type, destiny id, character id).
api_url_format(membership_type, destiny_id, character_id) ==
    "/Destiny2/" \o str(membership_type) \o "/Account/" \o str(destiny_id)
        \o "/Character/" \o str(character_id) \o "/Stats/AggregateActivityStats/"

StatNames == <<"activityKills", "activityDeaths">>

\* The document the API holds for character k: k % 3 activities, the j-th
\* with (k + j + 2) % 3 stats.  Hashes and values tell the characters apart.
\* values is a dict in insertion order: a sequence of <<name, data>>.
Activity(k, j) ==
    [activityHash |-> 100 * k + j,
     values |-> [s \in 1..((k + j + 2) % 3) |->
                    <<StatNames[s], [statId |-> StatNames[s], value |-> 10 * k + s]>>]]

Document(k) ==
    [Response |-> [activities |-> [j \in 1..(k % 3) |-> Activity(k, j)]]]

\* The document the API returns with an error status.
ErrorDocument == [ErrorCode |-> 5, ErrorStatus |-> "SystemDisabled"]

NotFoundDocument == [ErrorCode |-> 7, ErrorStatus |-> "ParameterParseFailure"]

\* What the server holds at a URL.
ApiDocument(url) ==
    IF \E k \in 1..MaxCharacters :
           api_url_format(Character(k)[1].destiny_membership_type,
                          Character(k)[1].destiny_id,
                          Character(k)[1].character_id) = url
    THEN Document(CHOOSE k \in 1..MaxCharacters :
           api_url_format(Character(k)[1].destiny_membership_type,
                          Character(k)[1].destiny_id,
                          Character(k)[1].character_id) = url)
    ELSE NotFoundDocument

\* The outcomes of requests.get(url): the call raises, or it returns a
\* response with a status and a text.  requests.get does not raise on an
\* error status; the API answers an error with its JSON error document, a
\* gateway in front of it with a page that is not JSON.
Responses(url) ==
    { [raised |-> "ConnectionError"],
      [status_code |-> 200, text |-> [json |-> ApiDocument(url)]],
      [status_code |-> 500, text |-> [json |-> ErrorDocument]],
      [status_code |-> 502, text |-> [garbage |-> "<html>Bad Gateway</html>"]] }

----------------------------------------------------------------------------
(* The functions of get_aggregate_activity_stats.py.                       *)

\* build_requests with characters[0] read where character is meant: every
\* request is built from the first character.
build_requests_first(chars) ==
    [i \in 1..Len(chars) |->
        << SetItem(chars[i][1], "requestUrl",
               << api_url_format(chars[1][1].destiny_membership_type,
                                 chars[1][1].destiny_id,
                                 chars[1][1].character_id) >>) >>]

\* build_requests: each character gets requestUrl, a one-element list.
build_requests(chars) ==
    [i \in 1..Len(chars) |->
        << SetItem(chars[i][1], "requestUrl",
               << api_url_format(chars[i][1].destiny_membership_type,
                                 chars[i][1].destiny_id,
                                 chars[i][1].character_id) >>) >>]

\* batch_end with end = start + chunk_size: consecutive slices overlap.
batch_end_overlap(first, character_count) ==
    IF first + chunk_size_requests > character_count
    THEN character_count - 1
    ELSE first + chunk_size_requests

\* process_requests, lines 72-74: the 0-based index of the batch's last
\* character.
batch_end(first, character_count) ==
    IF first + chunk_size_requests - 1 > character_count
    THEN character_count - 1
    ELSE first + chunk_size_requests - 1

\* get_stats with the request and the parse wrapped in try/except: a
\* failure is swallowed and the character returned without 'stats'.
get_stats_swallow(character, response) ==
    IF "raised" \in DOMAIN response THEN [returned |-> character]
    ELSE IF ~IsJson(response.text) THEN [returned |-> character]
    ELSE [returned |-> << SetItem(character[1], "stats", json_loads(response.text)) >>]

\* get_stats after requests.get has returned or raised: the exception the
\* call ends with, or the character with the parsed body under 'stats'.
get_stats(character, response) ==
    IF "raised" \in DOMAIN response THEN [raised |-> response.raised]
    ELSE IF ~IsJson(response.text) THEN [raised |-> "JSONDecodeError"]
    ELSE [returned |-> << SetItem(character[1], "stats", json_loads(response.text)) >>]

\* build_inserts, line 127: the row of the s-th stat of an activity.
insert(character, activity, s) ==
    << character[1].group_id, character[1].clan_id, character[1].member_id,
       character[1].character_id, activity.activityHash,
       activity.values[s][1], json_dumps(activity.values[s][2]) >>

\* stat_rows with the append outside the loop over the stats: one row per
\* activity, that of its last stat.
stat_rows_last(character, activity, s) ==
    IF Len(activity.values) = 0 THEN <<>>
    ELSE << insert(character, activity, Len(activity.values)) >>

\* build_inserts, lines 124-129: the rows of one activity, one per stat, in
\* the order of the dict.
RECURSIVE stat_rows(_, _, _)
stat_rows(character, activity, s) ==
    IF s > Len(activity.values) THEN <<>>
    ELSE << insert(character, activity, s) >> \o stat_rows(character, activity, s + 1)

\* build_inserts, lines 120-129: the rows of one character, activity by
\* activity.
RECURSIVE activity_rows(_, _)
activity_rows(character, a) ==
    IF a > Len(character[1].stats.Response.activities) THEN <<>>
    ELSE stat_rows(character, character[1].stats.Response.activities[a], 1)
         \o activity_rows(character, a + 1)

\* character[0]['stats']['Response']['activities'] raises KeyError when a
\* key is missing.
HasActivities(character) ==
    /\ "stats" \in DOMAIN character[1]
    /\ "Response" \in DOMAIN character[1].stats
    /\ "activities" \in DOMAIN character[1].stats.Response

RECURSIVE build_inserts(_)
build_inserts(character_stats) ==
    IF character_stats = <<>> THEN <<>>
    ELSE activity_rows(Head(character_stats), 1) \o build_inserts(Tail(character_stats))

\* load_data, line 163: '\t'.join(str(value) for value in row) + '\n', as
\* the pieces of text written one after the other.  The ids and the hash
\* are integers; the stat name and the JSON payload are strings already,
\* which str leaves as they are.
RECURSIVE join_row(_, _)
join_row(row, f) ==
    IF f > Len(row) THEN <<"\n">>
    ELSE (IF f > 1 THEN <<"\t">> ELSE <<>>)
         \o << IF f <= 5 THEN str(row[f]) ELSE row[f] >>
         \o join_row(row, f + 1)

\* load_data, lines 159-169: the buffer's text for a chunk.
RECURSIVE file_data(_)
file_data(rows) ==
    IF rows = <<>> THEN <<>>
    ELSE join_row(Head(rows), 1) \o file_data(Tail(rows))

\* copy_from reading one line: the columns between the separators.
RECURSIVE read_columns(_, _)
read_columns(line, column) ==
    IF line = <<>> THEN << column >>
    ELSE IF Head(line) = "\t" THEN << column >> \o read_columns(Tail(line), "")
    ELSE read_columns(Tail(line), column \o Head(line))

\* copy_from(buffer, table, sep='\t', columns=...), line 172: the rows the
\* database reads from the buffer, one per line.
RECURSIVE read_lines(_, _)
read_lines(buffer, line) ==
    IF buffer = <<>> THEN <<>>
    ELSE IF Head(buffer) = "\n"
         THEN << read_columns(line, "") >> \o read_lines(Tail(buffer), <<>>)
         ELSE read_lines(Tail(buffer), Append(line, Head(buffer)))

copy_from(buffer) == read_lines(buffer, <<>>)

\* load_data, lines 150-152: the 0-based index of the chunk's last row.
chunk_end(first, size, insert_count) ==
    IF first + size - 1 > insert_count THEN insert_count - 1 ELSE first + size - 1

----------------------------------------------------------------------------
(* The functions of single_thread_example.py.                              *)

\* Lines 46-58: the parameters of SQL.statInsert for the s-th stat of an
\* activity; the stat_id is the statId of the stat's data.
statInsert(character, activity, s) ==
    << character.group_id, character.clan_id, character.member_id,
       character.character_id, activity.activityHash,
       activity.values[s][2].statId, json_dumps(activity.values[s][2]) >>

\* Lines 45-63: the rows inserted for one activity, one per stat.
RECURSIVE single_stat_rows(_, _, _)
single_stat_rows(character, activity, s) ==
    IF s > Len(activity.values) THEN <<>>
    ELSE << statInsert(character, activity, s) >>
         \o single_stat_rows(character, activity, s + 1)

\* Lines 42-63: the rows inserted for one character, activity by activity.
RECURSIVE single_activity_rows(_, _, _)
single_activity_rows(character, activities, a) ==
    IF a > Len(activities) THEN <<>>
    ELSE single_stat_rows(character, activities[a], 1)
         \o single_activity_rows(character, activities, a + 1)

\* The row the database stores for the parameters of an insert: every
\* column as its text.
stored(row) == [f \in 1..Len(row) |-> IF f <= 5 THEN str(row[f]) ELSE row[f]]

----------------------------------------------------------------------------
(* The database connection.                                                *)

NoTxn == [truncated |-> FALSE, rows |-> <<>>]

\* db.commit(): the open transaction's effects reach the table.
Commit(t, tx) == (IF tx.truncated THEN <<>> ELSE t) \o tx.rows

\* Rows an earlier invocation of a job left in the table.
StaleRows ==
    << <<"1", "10", "100", "999", "7", "activityKills",
         "{\"statId\": \"activityKills\", \"value\": 1}">> >>

NoError == [exception |-> "none", in |-> "none"]

\* An exception leaves handler uncaught: the process ends, the connection
\* is dropped and its open transaction rolled back.
Raise(exception, function) ==
    /\ pc' = "aborted"
    /\ error' = [exception |-> exception, in |-> function]
    /\ txn' = NoTxn

\* single_thread_example.handler is not running.
NotRunning ==
    [pc |-> "idle", characters |-> <<>>, character |-> 0, rows |-> <<>>,
     insert_counter |-> 0]

\* single_thread_example.handler has been invoked.
Started == [NotRunning EXCEPT !.pc = "connect"]

----------------------------------------------------------------------------
(* handler.                                                                *)

Init ==
    /\ pc \in {"connect", "single_thread_example"}
    /\ single = (IF pc = "connect" THEN NotRunning ELSE Started)
    /\ run = 1
    /\ table \in {<<>>, StaleRows}
    /\ txn = NoTxn
    /\ commits = <<>>
    /\ db_characters \in {[k \in 1..n |-> Character(k)] : n \in 0..MaxCharacters}
    /\ characters = <<>>
    /\ start = 0
    /\ end = 0
    /\ chunk = 0
    /\ to_submit = <<>>
    /\ future = <<>>
    /\ stats = <<>>
    /\ inserts = <<>>
    /\ lstart = 0
    /\ lchunk_size = 0
    /\ total_inserts = 0
    /\ counts = 0
    /\ error = NoError
    /\ gets = EmptyBag
    /\ served = {}
    /\ pools = <<>>
    /\ loads = <<>>
    /\ faults = FALSE
    /\ last = [run |-> 0, served |-> {}, rows |-> BagOfSeq(<<>>)]

fetch_vars == <<start, end, chunk, to_submit, future, stats, gets, served, pools>>
load_vars == <<inserts, lstart, lchunk_size, total_inserts, counts, loads>>

\* psycopg2.connect, line 188.
Connect ==
    /\ pc = "connect"
    /\ pc' = "truncateActivity"
    /\ UNCHANGED <<run, table, txn, commits, db_characters, single, characters, error,
                   faults, last, fetch_vars, load_vars>>

ConnectFails ==
    /\ pc = "connect"
    /\ Raise("OperationalError", "handler")
    /\ faults' = TRUE
    /\ UNCHANGED <<run, table, commits, db_characters, single, characters, last,
                   fetch_vars, load_vars>>

\* The statements handler passes to execute_ddl, in order, and the position
\* that follows each.
DdlStatements ==
    {"truncateActivity", "analyzeActivityTable", "refreshActivity", "analyzeActivityView"}

AfterDdl(statement) ==
    CASE statement = "truncateActivity" -> "get_characters"
      [] statement = "analyzeActivityTable" -> "refreshActivity"
      [] statement = "refreshActivity" -> "analyzeActivityView"
      [] statement = "analyzeActivityView" -> "close"

\* executed for a truncateActivity statement that deletes nothing.
executed_nothing(statement, tx) == tx

\* cursor.execute(ddl), line 19: the statement's effect on the open
\* transaction.  ANALYZE and the view's refresh leave the table's rows alone.
executed(statement, tx) ==
    IF statement = "truncateActivity"
    THEN [tx EXCEPT !.truncated = TRUE, !.rows = <<>>]
    ELSE tx

\* ddl_result without db.commit(): the statement stays in the open
\* transaction.
ddl_result_uncommitted(statement, t, tx) ==
    [table |-> t, txn |-> executed(statement, tx)]

\* execute_ddl, lines 18-20: cursor.execute(ddl), then db.commit().
ddl_result(statement, t, tx) ==
    [table |-> Commit(t, executed(statement, tx)), txn |-> NoTxn]

execute_ddl ==
    /\ pc \in DdlStatements
    /\ table' = ddl_result(pc, table, txn).table
    /\ txn' = ddl_result(pc, table, txn).txn
    /\ commits' = Append(commits, pc)
    /\ pc' = AfterDdl(pc)
    /\ UNCHANGED <<run, db_characters, single, characters, error, faults, last,
                   fetch_vars, load_vars>>

execute_ddl_fails ==
    /\ pc \in DdlStatements
    /\ Raise("OperationalError", "execute_ddl")
    /\ faults' = TRUE
    /\ UNCHANGED <<run, table, commits, db_characters, single, characters, last,
                   fetch_vars, load_vars>>

\* get_characters: cursor.execute(characterSelect), fetchall().
get_characters ==
    /\ pc = "get_characters"
    /\ characters' = db_characters
    /\ pc' = "build_requests"
    /\ UNCHANGED <<run, table, txn, commits, db_characters, single, error, faults, last,
                   fetch_vars, load_vars>>

get_characters_fails ==
    /\ pc = "get_characters"
    /\ Raise("OperationalError", "get_characters")
    /\ faults' = TRUE
    /\ UNCHANGED <<run, table, commits, db_characters, single, characters, last,
                   fetch_vars, load_vars>>

BuildRequests ==
    /\ pc = "build_requests"
    /\ characters' = build_requests(characters)
    /\ pc' = "process_requests"
    /\ UNCHANGED <<run, table, txn, commits, db_characters, single, error, faults, last,
                   fetch_vars, load_vars>>

----------------------------------------------------------------------------
(* process_requests and the worker threads running get_stats.              *)

Finished(f) == f \in {"returned", "ConnectionError", "JSONDecodeError"}

\* The 1-based positions of characters[a:b].
SliceIndexes(a, b) == Slice([i \in 1..Len(characters) |-> i], a, b)

Collected == {stats[k] : k \in 1..Len(stats)}

\* Lines 71-81: the loop takes its next start, computes end and chunk and
\* creates the pool; past the last start it returns stats.
NextBatch ==
    /\ pc = "process_requests"
    /\ IF start < Len(characters)
       THEN /\ end' = batch_end(start, Len(characters))
            /\ chunk' = end' - start + 1
            /\ to_submit' = SliceIndexes(start, end' + 1)
            /\ pools' = Append(pools, [start |-> start, end |-> end',
                                       chunk |-> chunk', submitted |-> 0])
            /\ pc' = "submit"
       ELSE /\ pc' = "build_inserts"
            /\ UNCHANGED <<end, chunk, to_submit, pools>>
    /\ UNCHANGED <<run, table, txn, commits, db_characters, single, characters, start,
                   future, stats, error, gets, served, faults, last, load_vars>>

\* Line 82: executor.submit(get_stats, character) for the next character of
\* the slice.
Submit ==
    /\ pc = "submit"
    /\ to_submit # <<>>
    /\ future' = (Head(to_submit) :> "queued") @@ future
    /\ to_submit' = Tail(to_submit)
    /\ pools' = [pools EXCEPT ![Len(pools)].submitted = @ + 1]
    /\ UNCHANGED <<pc, run, table, txn, commits, db_characters, single, characters, start,
                   end, chunk, stats, error, gets, served, faults, last, load_vars>>

\* A worker thread of the pool (there are at most chunk of them) takes work
\* item i and issues its GET (line 100).
WorkerGet(i) ==
    /\ i \in DOMAIN future
    /\ future[i] = "queued"
    /\ Cardinality({j \in DOMAIN future : future[j] = "running"}) < chunk
    /\ future' = [future EXCEPT ![i] = "running"]
    /\ gets' = gets (+) SetToBag({characters[i][1].requestUrl[1]})
    /\ UNCHANGED <<pc, run, table, txn, commits, db_characters, single, characters, start,
                   end, chunk, to_submit, stats, error, served, pools, faults, last,
                   load_vars>>

\* The GET of work item i returns or raises, and get_stats runs to its end
\* (lines 101-109): the character is updated in place.
WorkerReturn(i) ==
    /\ i \in DOMAIN future
    /\ future[i] = "running"
    /\ \E response \in Responses(characters[i][1].requestUrl[1]) :
          LET result == get_stats(characters[i], response)
          IN  /\ served' = served \cup {[character |-> i,
                                         url |-> characters[i][1].requestUrl[1],
                                         response |-> response]}
              /\ IF "raised" \in DOMAIN result
                 THEN /\ future' = [future EXCEPT ![i] = result.raised]
                      /\ UNCHANGED characters
                 ELSE /\ future' = [future EXCEPT ![i] = "returned"]
                      /\ characters' = [characters EXCEPT ![i] = result.returned]
    /\ UNCHANGED <<pc, run, table, txn, commits, db_characters, single, start, end, chunk,
                   to_submit, stats, error, gets, pools, faults, last, load_vars>>

\* The futures created in the current iteration (future_to_url).
future_to_url == {i \in DOMAIN future : i > start}

\* Leaving the with block: executor.shutdown(wait=True).
shutdown_wait == \A i \in future_to_url : Finished(future[i])

ExecutorExit ==
    /\ pc = "submit"
    /\ to_submit = <<>>
    /\ shutdown_wait
    /\ pc' = "collect"
    /\ UNCHANGED <<run, table, txn, commits, db_characters, single, characters, error,
                   faults, last, fetch_vars, load_vars>>

\* Lines 84-85: as_completed yields a finished future not yet yielded, in
\* no particular order; result() returns its character or raises.
as_completed == {i \in future_to_url : Finished(future[i]) /\ i \notin Collected}

Collect(i) ==
    /\ pc = "collect"
    /\ i \in as_completed
    /\ IF future[i] = "returned"
       THEN /\ stats' = Append(stats, i)
            /\ UNCHANGED <<pc, error, txn>>
       ELSE /\ Raise(future[i], "process_requests")
            /\ UNCHANGED stats
    /\ UNCHANGED <<run, table, commits, db_characters, single, characters, start, end,
                   chunk, to_submit, future, gets, served, pools, faults, last,
                   load_vars>>

\* exhausted for a loop that is left after its first result.
exhausted_first == \E i \in future_to_url : i \in Collected

\* as_completed is exhausted once every future of the batch was yielded.
exhausted == future_to_url \subseteq Collected

EndBatch ==
    /\ pc = "collect"
    /\ exhausted
    /\ start' = start + chunk_size_requests
    /\ pc' = "process_requests"
    /\ UNCHANGED <<run, table, txn, commits, db_characters, single, characters, end, chunk,
                   to_submit, future, stats, error, gets, served, pools, faults,
                   last, load_vars>>

----------------------------------------------------------------------------
(* build_inserts, load_data and the end of handler.                        *)

\* The characters the collected results refer to.
character_stats == [k \in 1..Len(stats) |-> characters[stats[k]]]

BuildInserts ==
    /\ pc = "build_inserts"
    /\ IF \A k \in 1..Len(stats) : HasActivities(character_stats[k])
       THEN /\ inserts' = build_inserts(character_stats)
            /\ pc' = "load_data"
            /\ UNCHANGED <<error, txn>>
       ELSE /\ Raise("KeyError", "build_inserts")
            /\ UNCHANGED inserts
    /\ UNCHANGED <<run, table, commits, db_characters, single, characters, faults, last,
                   fetch_vars, lstart, lchunk_size, total_inserts, counts, loads>>

\* load_data, lines 135-149: chunk_size is capped by the number of rows;
\* range(0, insert_count, 0) raises ValueError.
load_chunk_size(insert_count) ==
    IF chunk_size_load > insert_count THEN insert_count ELSE chunk_size_load

LoadData ==
    /\ pc = "load_data"
    /\ lchunk_size' = load_chunk_size(Len(inserts))
    /\ lstart' = 0
    /\ total_inserts' = 0
    /\ IF lchunk_size' = 0
       THEN Raise("ValueError", "load_data")
       ELSE /\ pc' = "load_loop"
            /\ UNCHANGED <<error, txn>>
    /\ UNCHANGED <<run, table, commits, db_characters, single, characters, faults, last,
                   fetch_vars, inserts, counts, loads>>

\* Lines 149-174: one iteration: the chunk is written to the buffer, copied
\* and committed.
LoadChunk ==
    /\ pc = "load_loop"
    /\ lstart < Len(inserts)
    /\ LET last_row == chunk_end(lstart, lchunk_size, Len(inserts))
           rows == Slice(inserts, lstart, last_row + 1)
           copied == [txn EXCEPT !.rows = @ \o copy_from(file_data(rows))]
       IN  /\ total_inserts' = total_inserts + Len(rows)
           /\ table' = Commit(table, copied)
           /\ loads' = Append(loads, Len(rows))
    /\ txn' = NoTxn
    /\ commits' = Append(commits, "copy")
    /\ lstart' = lstart + lchunk_size
    /\ UNCHANGED <<pc, run, db_characters, single, characters, error, faults, last,
                   fetch_vars, inserts, lchunk_size, counts>>

LoadChunkFails ==
    /\ pc = "load_loop"
    /\ lstart < Len(inserts)
    /\ Raise("OperationalError", "load_data")
    /\ faults' = TRUE
    /\ UNCHANGED <<run, table, commits, db_characters, single, characters, last,
                   fetch_vars, load_vars>>

\* Line 182: past the last chunk load_data returns total_inserts.
LoadReturn ==
    /\ pc = "load_loop"
    /\ lstart >= Len(inserts)
    /\ counts' = total_inserts
    /\ pc' = "analyzeActivityTable"
    /\ UNCHANGED <<run, table, txn, commits, db_characters, single, characters, error,
                   faults, last, fetch_vars, inserts, lstart, lchunk_size,
                   total_inserts, loads>>

\* pg.close(), line 217.
Close ==
    /\ pc = "close"
    /\ pc' = "done"
    /\ txn' = NoTxn
    /\ UNCHANGED <<run, table, commits, db_characters, single, characters, error, faults,
                   last, fetch_vars, load_vars>>

----------------------------------------------------------------------------
(* single_thread_example.handler, run on the same database while the batch *)
(* job is not running.                                                     *)

batch_vars == <<txn, commits, characters, error, faults, fetch_vars, load_vars>>

\* psycopg2.connect, line 12.
SingleConnect ==
    /\ pc = "single_thread_example"
    /\ single.pc = "connect"
    /\ single' = [single EXCEPT !.pc = "characterSelect"]
    /\ UNCHANGED <<pc, run, table, db_characters, last, batch_vars>>

\* SQL.characterSelect, lines 14-20.
SingleSelect ==
    /\ pc = "single_thread_example"
    /\ single.pc = "characterSelect"
    /\ single' = [single EXCEPT !.pc = "loop", !.characters = db_characters]
    /\ UNCHANGED <<pc, run, table, db_characters, last, batch_vars>>

\* A database call raises: the exception leaves handler uncaught; what was
\* committed stays.
SingleFails ==
    /\ pc = "single_thread_example"
    /\ single.pc \in {"connect", "characterSelect", "statInsert"}
    /\ single' = [single EXCEPT !.pc = "aborted"]
    /\ UNCHANGED <<pc, run, table, db_characters, last, batch_vars>>

\* The loop moves to the next character once a character's rows are in.
single_after(s, rows) ==
    IF rows = <<>>
    THEN [s EXCEPT !.pc = "loop", !.character = s.character + 1, !.rows = <<>>]
    ELSE [s EXCEPT !.pc = "statInsert", !.rows = rows]

\* Lines 24-40: the GET of the next character.  A response whose status is
\* not 200 is skipped; one with status 200 is parsed.
SingleGet ==
    /\ pc = "single_thread_example"
    /\ single.pc = "loop"
    /\ single.character < Len(single.characters)
    /\ LET character == single.characters[single.character + 1][1]
           url == api_url_format(character.destiny_membership_type,
                                 character.destiny_id, character.character_id)
       IN  \E response \in Responses(url) :
              single' =
                 IF "raised" \in DOMAIN response
                 THEN [single EXCEPT !.pc = "aborted"]
                 ELSE IF response.status_code # 200
                 THEN [single EXCEPT !.character = single.character + 1]
                 ELSE IF ~IsJson(response.text)
                 THEN [single EXCEPT !.pc = "aborted"]
                 ELSE IF \/ "Response" \notin DOMAIN json_loads(response.text)
                         \/ "activities" \notin DOMAIN json_loads(response.text).Response
                 THEN [single EXCEPT !.pc = "aborted"]
                 ELSE single_after(single,
                         single_activity_rows(character,
                             json_loads(response.text).Response.activities, 1))
    /\ UNCHANGED <<pc, run, table, db_characters, last, batch_vars>>

\* Lines 50-63: one row is inserted and committed.
SingleInsert ==
    /\ pc = "single_thread_example"
    /\ single.pc = "statInsert"
    /\ table' = Append(table, stored(Head(single.rows)))
    /\ single' = [single_after(single, Tail(single.rows))
                     EXCEPT !.insert_counter = single.insert_counter + 1]
    /\ UNCHANGED <<pc, run, db_characters, last, batch_vars>>

\* pg.close(), line 70.
SingleClose ==
    /\ pc = "single_thread_example"
    /\ single.pc = "loop"
    /\ single.character = Len(single.characters)
    /\ single' = [single EXCEPT !.pc = "done"]
    /\ UNCHANGED <<pc, run, table, db_characters, last, batch_vars>>

----------------------------------------------------------------------------
(* The jobs are run one after the other on the same database.              *)

\* The job that ran has ended, by a return or by an exception.
JobEnded ==
    \/ pc \in {"done", "aborted"}
    \/ pc = "single_thread_example" /\ single.pc \in {"done", "aborted"}

\* single_thread_example.handler is run: a new process, the same database.
RunSingle ==
    /\ JobEnded
    /\ run < MaxRuns
    /\ run' = run + 1
    /\ pc' = "single_thread_example"
    /\ single' = Started
    /\ txn' = NoTxn
    /\ commits' = <<>>
    /\ characters' = <<>>
    /\ start' = 0
    /\ end' = 0
    /\ chunk' = 0
    /\ to_submit' = <<>>
    /\ future' = <<>>
    /\ stats' = <<>>
    /\ inserts' = <<>>
    /\ lstart' = 0
    /\ lchunk_size' = 0
    /\ total_inserts' = 0
    /\ counts' = 0
    /\ error' = NoError
    /\ gets' = EmptyBag
    /\ served' = {}
    /\ pools' = <<>>
    /\ loads' = <<>>
    /\ faults' = FALSE
    /\ last' = IF pc = "done"
               THEN [run |-> run, served |-> served, rows |-> BagOfSeq(table)]
               ELSE last
    /\ UNCHANGED <<table, db_characters>>

\* The batch job is run again: a new process, the same database.
Rerun ==
    /\ JobEnded
    /\ run < MaxRuns
    /\ run' = run + 1
    /\ pc' = "connect"
    /\ txn' = NoTxn
    /\ commits' = <<>>
    /\ characters' = <<>>
    /\ start' = 0
    /\ end' = 0
    /\ chunk' = 0
    /\ to_submit' = <<>>
    /\ future' = <<>>
    /\ stats' = <<>>
    /\ inserts' = <<>>
    /\ lstart' = 0
    /\ lchunk_size' = 0
    /\ total_inserts' = 0
    /\ counts' = 0
    /\ error' = NoError
    /\ gets' = EmptyBag
    /\ served' = {}
    /\ pools' = <<>>
    /\ loads' = <<>>
    /\ faults' = FALSE
    /\ last' = IF pc = "done"
               THEN [run |-> run, served |-> served, rows |-> BagOfSeq(table)]
               ELSE last
    /\ single' = NotRunning
    /\ UNCHANGED <<table, db_characters>>

Next ==
    \/ Connect
    \/ ConnectFails
    \/ execute_ddl
    \/ execute_ddl_fails
    \/ get_characters
    \/ get_characters_fails
    \/ BuildRequests
    \/ NextBatch
    \/ Submit
    \/ \E i \in 1..MaxCharacters : WorkerGet(i)
    \/ \E i \in 1..MaxCharacters : WorkerReturn(i)
    \/ ExecutorExit
    \/ \E i \in 1..MaxCharacters : Collect(i)
    \/ EndBatch
    \/ BuildInserts
    \/ LoadData
    \/ LoadChunk
    \/ LoadChunkFails
    \/ LoadReturn
    \/ Close
    \/ SingleConnect
    \/ SingleSelect
    \/ SingleFails
    \/ SingleGet
    \/ SingleInsert
    \/ SingleClose
    \/ RunSingle
    \/ Rerun

Spec == Init /\ [][Next]_vars

----------------------------------------------------------------------------
(* build_inserts on its own: handler at line 203, after a fetch in which   *)
(* the first character's response was any document of the API's shape and  *)
(* the characters were collected in any order process_requests allows.     *)

\* The dicts activity['values'] can be: the stat names in any order, none
\* twice.
FlatValues ==
    {[s \in 1..Len(names) |->
         <<names[s], [statId |-> names[s], value |-> 40 + s]>>] :
       names \in {q \in UNION {[1..m -> {StatNames[x] : x \in 1..Len(StatNames)}] :
                                  m \in 0..Len(StatNames)} :
                     \A a, b \in 1..Len(q) : a # b => q[a] # q[b]}}

FlatActivities == {[activityHash |-> h, values |-> v] : h \in {7, 8}, v \in FlatValues}

\* The parsed bodies: any list of up to MaxActivities activities, or the
\* API's error document.
FlatDocuments ==
    {[Response |-> [activities |-> q]] :
        q \in UNION {[1..m -> FlatActivities] : m \in 0..MaxActivities}}
      \cup {ErrorDocument}

\* The number of batches process_requests makes of n characters.
Batches(n) == (n + chunk_size_requests - 1) \div chunk_size_requests

\* The orders in which process_requests can have collected n characters:
\* the batches one after the other, the characters of a batch in the order
\* as_completed yields them, which is any.
CollectionOrders(n) ==
    {q \in [1..n -> 1..n] :
        /\ \A a, b \in 1..n : a # b => q[a] # q[b]
        /\ \A a, b \in 1..n :
              a < b => (q[a] - 1) \div chunk_size_requests
                          <= (q[b] - 1) \div chunk_size_requests}

InitFlatten ==
    \E n \in 0..MaxCharacters :
     LET requested == build_requests([k \in 1..n |-> Character(k)])
     IN
     \E order \in CollectionOrders(n) :
      \E d \in FlatDocuments :
       LET body(i) == IF i = 1 THEN d ELSE Document(i)
       IN  /\ pc = "build_inserts"
           /\ run = 1
           /\ table = <<>>
           /\ txn = NoTxn
           /\ commits = <<"truncateActivity">>
           /\ db_characters = [k \in 1..n |-> Character(k)]
           /\ characters = [i \in 1..n |-> << SetItem(requested[i][1], "stats", body(i)) >>]
           /\ start = Batches(n) * chunk_size_requests
           /\ end = IF n = 0 THEN 0
                    ELSE batch_end((Batches(n) - 1) * chunk_size_requests, n)
           /\ chunk = IF n = 0 THEN 0
                      ELSE end - (Batches(n) - 1) * chunk_size_requests + 1
           /\ to_submit = <<>>
           /\ future = [i \in 1..n |-> "returned"]
           /\ stats = order
           /\ inserts = <<>>
           /\ lstart = 0
           /\ lchunk_size = 0
           /\ total_inserts = 0
           /\ counts = 0
           /\ error = NoError
           /\ gets = SetToBag({requested[i][1].requestUrl[1] : i \in 1..n})
           /\ served = {[character |-> i, url |-> requested[i][1].requestUrl[1],
                         response |-> [status_code |-> 200, text |-> [json |-> body(i)]]] :
                           i \in 1..n}
           /\ pools = [p \in 1..Batches(n) |->
                         LET first == (p - 1) * chunk_size_requests
                         IN  [start |-> first, end |-> batch_end(first, n),
                              chunk |-> batch_end(first, n) - first + 1,
                              submitted |-> Len(SliceIndexes(first, batch_end(first, n) + 1))]]
           /\ loads = <<>>
           /\ faults = FALSE
           /\ single = NotRunning
           /\ last = [run |-> 0, served |-> {}, rows |-> BagOfSeq(<<>>)]

NextFlatten == BuildInserts

SpecFlatten == InitFlatten /\ [][NextFlatten]_vars

----------------------------------------------------------------------------
(* Vocabulary of the properties.                                           *)

\* Positions of handler after build_inserts has returned.
AfterFlatten ==
    {"load_data", "load_loop", "analyzeActivityTable", "refreshActivity",
     "analyzeActivityView", "close", "done"}

\* process_requests has returned its list.
Fetched ==
    \/ pc \in AfterFlatten \cup {"build_inserts"}
    \/ pc = "aborted" /\ error.in \in {"build_inserts", "load_data"}
    \/ pc = "aborted" /\ error.in = "execute_ddl" /\ commits # <<>>

\* The batch a character (1-based position) belongs to.
BatchOf(i) == (i - 1) \div chunk_size_requests

\* The URL of a character's own stats.
OwnUrl(character) ==
    api_url_format(character[1].destiny_membership_type, character[1].destiny_id,
                   character[1].character_id)

\* Number of stats in all activities of a parsed document.
RECURSIVE StatCount(_, _)
StatCount(activities, a) ==
    IF a > Len(activities) THEN 0
    ELSE Len(activities[a].values) + StatCount(activities, a + 1)

RECURSIVE TotalStatCount(_)
TotalStatCount(k) ==
    IF k = 0 THEN 0
    ELSE StatCount(characters[stats[k]][1].stats.Response.activities, 1)
         + TotalStatCount(k - 1)

\* The rows of the table that a list of inserts amounts to: every value as
\* text.
TextRows(rows) ==
    [r \in 1..Len(rows) |->
        [f \in 1..Len(rows[r]) |-> IF f <= 5 THEN str(rows[r][f]) ELSE rows[r][f]]]

\* The rows among inserts that carry a character's id.
RowsOf(character) ==
    {r \in 1..Len(inserts) : inserts[r][4] = character[1].character_id}

\* A GET that raised, or whose body json.loads rejects.
IsException(response) ==
    \/ "raised" \in DOMAIN response
    \/ "text" \in DOMAIN response /\ ~IsJson(response.text)

\* A response with an HTTP error status whose body is a JSON document.
IsHttpError(response) ==
    /\ "status_code" \in DOMAIN response
    /\ response.status_code # 200
    /\ IsJson(response.text)

\* No row was loaded and no maintenance statement executed in this run.
NothingLoaded ==
    /\ table = <<>>
    /\ loads = <<>>
    /\ \A c \in 1..Len(commits) : commits[c] = "truncateActivity"

Maintenance == <<"analyzeActivityTable", "refreshActivity", "analyzeActivityView">>

----------------------------------------------------------------------------
(* C1: build_inserts emits one row per (activity, stat) pair: for each     *)
(* character the number of its rows is the sum, over its activities, of    *)
(* the number of stats of the activity; there are as many rows with a hash *)
(* and a stat name as the character has activities with that hash holding  *)
(* that stat; and the number of all rows is the sum over all characters.   *)
C1_RowPerActivityStat ==
    pc \in AfterFlatten =>
        /\ Len(inserts) = TotalStatCount(Len(stats))
        /\ \A k \in 1..Len(stats) :
              LET character == characters[stats[k]]
                  activities == character[1].stats.Response.activities
                  pairs == {<<a, v>> \in (1..Len(activities)) \X (1..Len(StatNames)) :
                               v <= Len(activities[a].values)}
              IN  /\ Cardinality(RowsOf(character)) = StatCount(activities, 1)
                  /\ Cardinality(RowsOf(character)) = Cardinality(pairs)
                  /\ \A p \in pairs :
                        Cardinality({r \in RowsOf(character) :
                            /\ inserts[r][5] = activities[p[1]].activityHash
                            /\ inserts[r][6] = activities[p[1]].values[p[2]][1]})
                        = Cardinality({q \in pairs :
                            /\ activities[q[1]].activityHash = activities[p[1]].activityHash
                            /\ activities[q[1]].values[q[2]][1]
                                  = activities[p[1]].values[p[2]][1]})

\* Rows were built from several characters collected out of the order of
\* the list, one with N = 2 activities of M = 2 stats each, another with
\* activities of different sizes.
C1_Witness ==
    /\ pc = "load_data"
    /\ Len(stats) >= 3
    /\ stats[1] > stats[2]
    /\ stats[3] = 1
    /\ LET activities == characters[1][1].stats.Response.activities
       IN  /\ Len(activities) = 2
           /\ Len(activities[1].values) = 2
           /\ Len(activities[2].values) = 2
           /\ Cardinality(RowsOf(characters[1])) = 4
    /\ \E k \in 1..Len(stats) :
          LET activities == characters[stats[k]][1].stats.Response.activities
          IN  /\ Len(activities) = 2
              /\ Len(activities[1].values) # Len(activities[2].values)

(* C2: a completed run leaves in the table exactly the rows it flattened,  *)
(* none of an earlier run, and two consecutive completed runs that got the *)
(* same responses leave the same multiset of rows.                         *)
C2_IdempotentOverwrite ==
    pc = "done" =>
        /\ BagOfSeq(table) = BagOfSeq(TextRows(inserts))
        /\ (last.run = run - 1 /\ last.served = served) =>
               last.rows = BagOfSeq(table)

\* The second of two completed runs with the same responses, its rows
\* loaded in several chunks and not in the order of the characters.
C2_Witness ==
    /\ pc = "done"
    /\ run = 2
    /\ last.run = 1
    /\ last.served = served
    /\ Len(loads) >= 2
    /\ stats[1] > stats[2]

(* C3: process_requests issues at most one GET per character, and when it  *)
(* returns it has issued exactly one per character and its list holds      *)
(* every character exactly once, those of a batch before those of the next.*)
C3_OneGetEachAndPermutation ==
    /\ \A url \in BagToSet(gets) : CopiesIn(url, gets) = 1
    /\ Fetched =>
          /\ BagToSet(gets) = {OwnUrl(db_characters[i]) : i \in 1..Len(db_characters)}
          /\ Len(stats) = Len(db_characters)
          /\ Collected = 1..Len(db_characters)
          /\ \A a, b \in 1..Len(stats) : a < b => BatchOf(stats[a]) <= BatchOf(stats[b])

\* process_requests returned after two batches, the second one short, with
\* results collected out of submission order.
C3_Witness ==
    /\ pc = "build_inserts"
    /\ Len(db_characters) > chunk_size_requests
    /\ Len(db_characters) % chunk_size_requests # 0
    /\ stats[1] > stats[2]

(* C4: no request of a batch is submitted or started before every request  *)
(* of the batches before it has completed and been collected into stats.   *)
C4_NoCrossBatchConcurrency ==
    \A i \in DOMAIN future :
       \A j \in 1..Len(characters) :
          BatchOf(j) < BatchOf(i) =>
             /\ j \in DOMAIN future
             /\ Finished(future[j])
             /\ j \in Collected

\* A request of the second batch is in flight.
C4_Witness ==
    \E i \in DOMAIN future : BatchOf(i) = 1 /\ future[i] = "running"

(* C5 as claimed: any HTTP or JSON error for a character propagates out of *)
(* process_requests, no later batch is dispatched, no row is loaded and no *)
(* maintenance statement executed.                                         *)
C5_AsClaimed ==
    \A s \in served :
       (IsException(s.response) \/ IsHttpError(s.response)) =>
          /\ pc \in {"submit", "collect", "aborted"}
          /\ pc = "aborted" => error.in = "process_requests"
          /\ \A j \in DOMAIN future : BatchOf(j) <= BatchOf(s.character)
          /\ NothingLoaded

(* C5 amended: an exception raised by requests.get or json.loads for a     *)
(* character is raised out of process_requests when its batch is collected,*)
(* with no retry, no skip and no later batch dispatched.  An HTTP error    *)
(* status is not looked at: when its body is a JSON document without       *)
(* Response.activities the run goes on and ends in build_inserts at the    *)
(* latest.  In both cases no row is loaded and no maintenance executed.    *)
C5_ErrorsAbortTheRun ==
    \A s \in served :
       /\ IsException(s.response) =>
             /\ pc \in {"submit", "collect", "aborted"}
             /\ pc = "aborted" =>
                   /\ error.in = "process_requests"
                   /\ error.exception \in {"ConnectionError", "JSONDecodeError"}
             /\ \A j \in DOMAIN future : BatchOf(j) <= BatchOf(s.character)
             /\ CopiesIn(s.url, gets) = 1
             /\ s.character \notin Collected
             /\ NothingLoaded
       /\ (IsHttpError(s.response) /\ "Response" \notin DOMAIN json_loads(s.response.text)) =>
             /\ pc \notin AfterFlatten
             /\ pc = "aborted" => error.in \in {"process_requests", "build_inserts"}
             /\ NothingLoaded

\* A body that is not JSON ended the run in the first batch, with a later
\* batch never dispatched, while another response of the batch was an HTTP
\* error with a JSON body.
C5_Witness ==
    /\ pc = "aborted"
    /\ error = [exception |-> "JSONDecodeError", in |-> "process_requests"]
    /\ Len(characters) > chunk_size_requests
    /\ \A j \in DOMAIN future : BatchOf(j) = 0
    /\ \E s \in served : IsHttpError(s.response)

\* load_data has ended, by a return or by an exception.
LoadEnded ==
    \/ pc \in {"analyzeActivityTable", "refreshActivity", "analyzeActivityView",
               "close", "done"}
    \/ pc = "aborted" /\ error.in = "load_data"

(* C6 as claimed: for rows of any number, zero included, load_data copies  *)
(* every row once and in order, in chunks of at most chunk_size rows with  *)
(* one commit each, and returns the number of rows.                        *)
C6_AsClaimed ==
    (LoadEnded /\ ~faults) =>
        /\ pc # "aborted"
        /\ table = TextRows(inserts)
        /\ counts = Len(inserts)
        /\ \A c \in 1..Len(loads) : loads[c] <= chunk_size_load
        /\ Cardinality({c \in 1..Len(commits) : commits[c] = "copy"}) = Len(loads)

(* C7 as claimed: a run in which no database or HTTP call fails, whatever  *)
(* the number of characters and rows, ends with the three maintenance      *)
(* statements committed in order after the last load chunk, and closed.    *)
C7_AsClaimed ==
    (/\ pc \in {"done", "aborted"}
     /\ ~faults
     /\ \A s \in served : ~IsException(s.response) /\ ~IsHttpError(s.response))
    =>  /\ pc = "done"
        /\ commits = <<"truncateActivity">> \o [c \in 1..Len(loads) |-> "copy"]
                         \o Maintenance

(* C8: the stats attached to a character are the response to the GET of    *)
(* that character's own URL, and every row carries the ids of the          *)
(* character whose document holds the row's activity and stat.             *)
C8_RowsCarryOwnIds ==
    /\ \A i \in 1..Len(characters) :
          "stats" \in DOMAIN characters[i][1] =>
              \E s \in served :
                 /\ s.character = i
                 /\ s.url = OwnUrl(db_characters[i])
                 /\ "text" \in DOMAIN s.response
                 /\ IsJson(s.response.text)
                 /\ json_loads(s.response.text) = characters[i][1].stats
    /\ \A r \in 1..Len(inserts) :
          \E k \in 1..Len(db_characters) :
             /\ <<inserts[r][1], inserts[r][2], inserts[r][3], inserts[r][4]>>
                   = <<db_characters[k][1].group_id, db_characters[k][1].clan_id,
                       db_characters[k][1].member_id, db_characters[k][1].character_id>>
             /\ \E a \in 1..Len(Document(k).Response.activities) :
                   LET activity == Document(k).Response.activities[a]
                   IN  /\ inserts[r][5] = activity.activityHash
                       /\ \E v \in 1..Len(activity.values) :
                             /\ inserts[r][6] = activity.values[v][1]
                             /\ inserts[r][7] = json_dumps(activity.values[v][2])

\* Rows were built from two characters of one batch whose responses arrived
\* in the reverse of the submission order.
C8_Witness ==
    /\ pc = "load_data"
    /\ Len(stats) >= 2
    /\ stats[1] = 2
    /\ stats[2] = 1
    /\ RowsOf(characters[1]) # {}
    /\ RowsOf(characters[2]) # {}

(* C9 as claimed: the pool of a batch has as many workers as characters    *)
(* are submitted to it, the chunk bounds are indices of the character      *)
(* list, and at most chunk_size requests are in flight.                    *)
C9_AsClaimed ==
    /\ \A p \in 1..Len(pools) :
          /\ pools[p].end <= Len(characters) - 1
          /\ (p < Len(pools) \/ pc # "submit" \/ to_submit = <<>>) =>
                 pools[p].chunk = pools[p].submitted
    /\ Cardinality({i \in DOMAIN future : future[i] = "running"}) <= chunk_size_requests

(* C10: once the truncate is committed the table holds no row of an        *)
(* earlier run: it is a prefix of this run's rows made of whole committed  *)
(* chunks, and it is empty when the run aborts before load_data.           *)
C10_OnlyThisRunsChunks ==
    (pc \notin {"connect", "truncateActivity", "single_thread_example"}
       /\ ~(pc = "aborted" /\ commits = <<>>)) =>
        /\ Len(table) <= Len(inserts)
        /\ \A r \in 1..Len(table) : table[r] = TextRows(inserts)[r]
        /\ Len(table) = Min(Len(loads) * lchunk_size, Len(inserts))
        /\ (pc = "aborted" /\ error.in \in {"get_characters", "process_requests",
                                           "build_inserts"}) => table = <<>>

\* The second run, after a first one that loaded rows, aborts in load_data
\* with some chunks committed and some not.
C10_Witness ==
    /\ run = 2
    /\ last.run = 1
    /\ last.rows # BagOfSeq(<<>>)
    /\ pc = "aborted"
    /\ error.in = "load_data"
    /\ loads # <<>>
    /\ Len(table) < Len(inserts)
====
